---- MODULE Spec2Model ----
(***************************************************************************)
(* Model of index.js: a batch run that loads products.json, selects the    *)
(* records whose price changed, serves one HTML page per record, lets      *)
(* worker threads screenshot the pages, and rewrites products.json.        *)
(***************************************************************************)
EXTENDS Integers, Sequences, FiniteSets, TLC

\* ------------------------------------------------------------------ bounds
MaxProducts == 3
MaxWorkers == 2
MaxParamLen == 2
MaxNumeralLen == 2

\* Runs of the program over the same products.json.
MaxRuns == 2

\* ------------------------------------------------------- JavaScript values
Undefined == [t |-> "undefined"]
Null == [t |-> "null"]
Num(n) == [t |-> "number", v |-> n]
Str(s) == [t |-> "string", v |-> s]

\* JavaScript truthiness of a value, as used by `if (x)` and `!x`.
Truthy(x) ==
  CASE x.t = "undefined" -> FALSE
    [] x.t = "null" -> FALSE
    [] x.t = "number" -> x.v # 0
    [] x.t = "string" -> x.v # ""

\* ------------------------------------------------------------ input domain
Rec(code, suffix, cur, prev) ==
  [productCode |-> code, variation_suffix |-> suffix,
   current_price |-> cur, previous_price |-> prev]

\* Product records of products.json: every class of previous_price (equal,
\* different, null, absent) and of variation_suffix (absent, empty, present).
\* Prices are numbers with at most two decimals, held in hundredths.
Records ==
  { Rec("a", Undefined, Num(205), Num(205)),
    Rec("a", Undefined, Num(1990), Num(205)),
    Rec("a_b", Undefined, Num(205), Undefined),
    Rec("a", Str("b"), Num(1990), Null),
    Rec("a", Str(""), Num(205), Num(1990)) }

SeqsUpTo(S, n) == UNION { [1..k -> S] : k \in 0..n }

Collections == SeqsUpTo(Records, MaxProducts)

\* products.json: its parsed content, or a file that cannot be read or parsed.
File(data) == [readable |-> TRUE, data |-> data]

Unreadable == [readable |-> FALSE, data |-> << >>]

\* ------------------------------------------------------------------- state
VARIABLES
  numWorkers,        \* NUM_WORKERS
  store,             \* content of products.json
  storeWrites,       \* number of writeFileSync calls on products.json
  dirsMade,          \* output and images directories ensured
  productsData,      \* the loaded collection
  productsToProcess, \* the pending selection
  pc,                \* position of the main thread
  server,            \* state of the HTTP server
  productChunks,     \* result of chunkArray
  spawnI,            \* loop variable i of the spawn loop
  workers,           \* the workers array (worker ids in push order)
  completedWorkers,  \* completedWorkers counter
  resolved,          \* workerPromise has been resolved
  wpc,               \* position of each worker thread
  wi,                \* loop variable i of each worker
  wbrowser,          \* browser session of each worker
  wpage,             \* what the worker's page currently shows
  werr,              \* an exception is propagating through the finally block
  wexit,             \* exit status of each worker thread
  msgs,              \* messages posted by each worker, not yet handled
  handled,           \* messages already seen by the main thread's handler
  shots,             \* screenshots taken, in the order they were written
  req,               \* :index parameter of the last request of an HTTP client
  resp,              \* response the page server gave to it
  fmtIn,             \* text last given to convertToArabicDigits by a caller
  fmtOut,            \* text it returned
  run                \* number of the run of the program on this store

vars == << numWorkers, store, storeWrites, dirsMade, productsData,
           productsToProcess, pc, server, productChunks, spawnI, workers,
           completedWorkers, resolved, wpc, wi, wbrowser, wpage, werr, wexit,
           msgs, handled, shots, req, resp, fmtIn, fmtOut, run >>

mainVars == << store, storeWrites, dirsMade, productsData, productsToProcess,
               pc, server, productChunks, spawnI, workers, completedWorkers,
               resolved >>

workerVars == << wpc, wi, wbrowser, wpage, werr, wexit, shots >>

serverVars == << req, resp >>

envVars == << fmtIn, fmtOut, run >>

WorkerIds == 1..MaxWorkers

\* --------------------------------------------------------- pure functions
\* The filter predicate without the comparison of the two prices.
NeedsImage_NoCompare(product) ==
  \/ product.previous_price = Null
  \/ product.previous_price = Undefined

\* The filter predicate of productsToProcess.
NeedsImage(product) ==
  \/ product.previous_price = Null
  \/ product.previous_price = Undefined
  \/ product.previous_price # product.current_price

\* Positions of the collection that pass the filter, in order.
RECURSIVE PendingPositionsFrom(_, _)
PendingPositionsFrom(data, k) ==
  IF k > Len(data) THEN << >>
  ELSE IF NeedsImage(data[k]) THEN << k >> \o PendingPositionsFrom(data, k + 1)
       ELSE PendingPositionsFrom(data, k + 1)

\* productsData.filter(...): each selected element keeps the position it was
\* taken from (src), which stands for the identity of the JavaScript object.
FilterProducts(data) ==
  LET pos == PendingPositionsFrom(data, 1)
  IN [j \in 1..Len(pos) |-> [src |-> pos[j], product |-> data[pos[j]]]]


\* Array.prototype.findIndex inside chunkArray: the 0-based position of the
\* first record with the same productCode and a matching variation_suffix,
\* or -1.
RECURSIVE FindIndexFrom(_, _, _)
FindIndexFrom(data, item, k) ==
  IF k > Len(data) THEN -1
  ELSE IF /\ data[k].productCode = item.productCode
          /\ \/ data[k].variation_suffix = item.variation_suffix
             \/ (~Truthy(data[k].variation_suffix) /\ ~Truthy(item.variation_suffix))
       THEN k - 1
       ELSE FindIndexFrom(data, item, k + 1)

FindIndex(data, item) == FindIndexFrom(data, item, 1)

\* Contiguous blocks instead of round-robin: index / chunkCount picks the chunk.
RECURSIVE ChunkPositions_Blocks(_, _, _, _)
ChunkPositions_Blocks(n, chunkCount, c, index) ==
  IF index >= n THEN << >>
  ELSE IF index \div chunkCount = c
       THEN << index >> \o ChunkPositions_Blocks(n, chunkCount, c, index + 1)
       ELSE ChunkPositions_Blocks(n, chunkCount, c, index + 1)

\* The 0-based positions index of array with index % chunkCount = c, in order.
RECURSIVE ChunkPositions(_, _, _, _)
ChunkPositions(n, chunkCount, c, index) ==
  IF index >= n THEN << >>
  ELSE IF index % chunkCount = c
       THEN << index >> \o ChunkPositions(n, chunkCount, c, index + 1)
       ELSE ChunkPositions(n, chunkCount, c, index + 1)

\* chunkArray with unshift in place of push: each chunk in reverse order.
chunkArray_Unshift(data, array, chunkCount) ==
  [c \in 1..chunkCount |->
     LET pos == ChunkPositions(Len(array), chunkCount, c - 1, 0)
     IN [k \in 1..Len(pos) |->
           [index |-> FindIndex(data, array[pos[Len(pos) + 1 - k] + 1].product),
            product |-> array[pos[Len(pos) + 1 - k] + 1].product,
            src |-> array[pos[Len(pos) + 1 - k] + 1].src]]]

\* chunkArray(array, chunkCount); chunk c of the code is chunks[c + 1] here.
chunkArray(data, array, chunkCount) ==
  [c \in 1..chunkCount |->
     LET pos == ChunkPositions(Len(array), chunkCount, c - 1, 0)
     IN [k \in 1..Len(pos) |->
           [index |-> FindIndex(data, array[pos[k] + 1].product),
            product |-> array[pos[k] + 1].product,
            src |-> array[pos[k] + 1].src]]]

\* `${product.productCode}_${product.variation_suffix}` or productCode alone.
BaseName(product) ==
  IF Truthy(product.variation_suffix)
  THEN product.productCode \o "_" \o product.variation_suffix.v
  ELSE product.productCode

\* outputFileName of the worker.
OutputFileName(product) == BaseName(product) \o ".webp"

\* imageFileName of the page server.
ImageFileName(product) == BaseName(product) \o ".jpg"

\* updatedProducts with the spread written last, so that a previous_price
\* the record already has wins.
UpdatedProducts_SpreadLast(data) ==
  [k \in 1..Len(data) |->
     [data[k] EXCEPT !.previous_price =
        IF @ = Undefined THEN data[k].current_price ELSE @]]

\* updatedProducts of main: previous_price := current_price for every record.
UpdatedProducts(data) ==
  [k \in 1..Len(data) |-> [data[k] EXCEPT !.previous_price = data[k].current_price]]

\* -------------------------------------------------------------- page server
\* Text handled character by character is a sequence of one-character strings.
DecDigits == << "0", "1", "2", "3", "4", "5", "6", "7", "8", "9" >>

IsDecDigit(ch) == \E d \in 1..10 : DecDigits[d] = ch

DigitValue(ch) == (CHOOSE d \in 1..10 : DecDigits[d] = ch) - 1

\* Decimal numeral of a natural number.
RECURSIVE NatToChars(_)
NatToChars(n) ==
  IF n < 10 THEN << DecDigits[n + 1] >>
  ELSE NatToChars(n \div 10) \o << DecDigits[(n % 10) + 1] >>

\* String(n) for an integer n, as in the template literal `/product/${index}`.
IntToChars(n) == IF n < 0 THEN << "-" >> \o NatToChars(-n) ELSE NatToChars(n)

NaN == [t |-> "NaN"]

HexDigits == DecDigits \o << "a", "b", "c", "d", "e", "f" >>

IsDigitOf(ch, radix) == \E d \in 1..radix : HexDigits[d] = ch

DigitOf(ch) == (CHOOSE d \in 1..16 : HexDigits[d] = ch) - 1

\* Value of the longest prefix of s made of digits of the radix, continuing
\* from acc; seen tells whether a digit has been read.
RECURSIVE ParseDigits(_, _, _, _)
ParseDigits(s, radix, acc, seen) ==
  IF s = << >> \/ ~IsDigitOf(Head(s), radix)
  THEN IF seen THEN Num(acc) ELSE NaN
  ELSE ParseDigits(Tail(s), radix, acc * radix + DigitOf(Head(s)), TRUE)

\* parseInt(string) without a radix: optional sign, optional 0x prefix, then
\* the longest run of digits; NaN when there is none.  -0 is held as 0.
parseInt(s) ==
  LET neg == s # << >> /\ Head(s) = "-"
      body == IF neg THEN Tail(s) ELSE s
      hex == Len(body) >= 2 /\ body[1] = "0" /\ body[2] = "x"
      mag == IF hex THEN ParseDigits(Tail(Tail(body)), 16, 0, FALSE)
             ELSE ParseDigits(body, 10, 0, FALSE)
  IN IF mag = NaN THEN NaN
     ELSE IF neg THEN Num(0 - mag.v) ELSE mag

\* Number.prototype.toFixed(2) of a non-negative price held in hundredths.
toFixed2(price) ==
  NatToChars(price.v \div 100)
    \o << "." >> \o << DecDigits[((price.v \div 10) % 10) + 1] >>
    \o << DecDigits[(price.v % 10) + 1] >>

\* The table arabicDigits; glyph d is written "ar<d>".
arabicDigits == << "ar0", "ar1", "ar2", "ar3", "ar4", "ar5", "ar6", "ar7", "ar8", "ar9" >>

\* The conversion with the table read one place too far.
convertToArabicDigits_Shifted(s) ==
  [k \in 1..Len(s) |->
     IF IsDecDigit(s[k]) THEN arabicDigits[((DigitValue(s[k]) + 1) % 10) + 1]
     ELSE s[k]]

\* convertToArabicDigits applied to text: every \d is replaced by its glyph.
convertToArabicDigits(s) ==
  [k \in 1..Len(s) |->
     IF IsDecDigit(s[k]) THEN arabicDigits[DigitValue(s[k]) + 1] ELSE s[k]]

\* res.status(404).send('Product not found')
NotFound == [status |-> 404, body |-> [text |-> "Product not found"]]

\* Lines 171-189: the page rendered for a record; the template shows exactly
\* these two values.
RenderProduct(product) ==
  [imageUrl |-> "/images/" \o ImageFileName(product),
   priceInArabic |-> convertToArabicDigits(toFixed2(product.current_price))]

\* The handler with the upper bound of the index test off by one.
ProductRoute_OffByOne(data, param) ==
  LET productIndex == parseInt(param)
  IN IF productIndex = NaN \/ productIndex.v < 0 \/ productIndex.v >= Len(data) - 1
     THEN NotFound
     ELSE [status |-> 200, body |-> RenderProduct(data[productIndex.v + 1])]

\* The handler of GET /product/:index for the parameter text param.
ProductRoute(data, param) ==
  LET productIndex == parseInt(param)
  IN IF productIndex = NaN \/ productIndex.v < 0 \/ productIndex.v >= Len(data)
     THEN NotFound
     ELSE [status |-> 200, body |-> RenderProduct(data[productIndex.v + 1])]

ParamChars == {"0", "1", "2", "-", "x"}

\* Values of the :index parameter a client may send.
Params == UNION { [1..k -> ParamChars] : k \in 1..MaxParamLen }

NoResponse == [status |-> 0, body |-> [text |-> ""]]

\* What a page shows before any navigation.
Blank == [status |-> 0, body |-> [text |-> "about:blank"]]

\* ------------------------------------------------------------------- Init
Init ==
  /\ numWorkers \in 1..MaxWorkers
  /\ store \in { File(c) : c \in Collections } \cup {Unreadable}
  /\ storeWrites = 0
  /\ dirsMade = FALSE
  /\ productsData = << >>
  /\ productsToProcess = << >>
  /\ pc = "load"
  /\ server = "none"
  /\ productChunks = << >>
  /\ spawnI = 0
  /\ workers = << >>
  /\ completedWorkers = 0
  /\ resolved = FALSE
  /\ wpc = [w \in WorkerIds |-> "none"]
  /\ wi = [w \in WorkerIds |-> 0]
  /\ wbrowser = [w \in WorkerIds |-> "none"]
  /\ wpage = [w \in WorkerIds |-> Blank]
  /\ werr = [w \in WorkerIds |-> FALSE]
  /\ wexit = [w \in WorkerIds |-> -1]
  /\ msgs = [w \in WorkerIds |-> << >>]
  /\ handled = [w \in WorkerIds |-> << >>]
  /\ shots = [w \in WorkerIds |-> << >>]
  /\ req = << >>
  /\ resp = NoResponse
  /\ fmtIn = << >>
  /\ fmtOut = << >>
  /\ run = 1

\* ------------------------------------------------------------ main thread
\* The load with a catch block that only logs: the run goes on with the
\* empty productsData.
Load_NoExit ==
  /\ pc = "load"
  /\ productsData' = store.data
  /\ pc' = "setup"
  /\ UNCHANGED << numWorkers, store, storeWrites, dirsMade, productsToProcess,
                  server, productChunks, spawnI, workers, completedWorkers,
                  resolved, workerVars, msgs, handled, serverVars,
                  envVars >>

\* Lines 16-26: read and parse products.json, or exit with status 1.
Load ==
  /\ pc = "load"
  /\ IF ~store.readable
     THEN /\ pc' = "exit1"
          /\ UNCHANGED productsData
     ELSE /\ productsData' = store.data
          /\ pc' = "setup"
  /\ UNCHANGED << numWorkers, store, storeWrites, dirsMade, productsToProcess,
                  server, productChunks, spawnI, workers, completedWorkers,
                  resolved, workerVars, msgs, handled, serverVars,
                  envVars >>

\* Lines 29-153: ensure the directories, compute the pending selection.
Setup ==
  /\ pc = "setup"
  /\ dirsMade' = TRUE
  /\ productsToProcess' = FilterProducts(productsData)
  /\ pc' = "main"
  /\ UNCHANGED << numWorkers, store, storeWrites, productsData, server,
                  productChunks, spawnI, workers, completedWorkers, resolved,
                  workerVars, msgs, handled, serverVars,
                  envVars >>

\* main() without the early return.
MainEntry_NoEarlyReturn ==
  /\ pc = "main"
  /\ pc' = "listen"
  /\ server' = "binding"
  /\ UNCHANGED << numWorkers, store, storeWrites, dirsMade, productsData,
                  productsToProcess, productChunks, spawnI, workers,
                  completedWorkers, resolved, workerVars, msgs, handled,
                  serverVars,
                  envVars >>

\* Lines 222-232: main() returns early or calls startServer and suspends.
MainEntry ==
  /\ pc = "main"
  /\ IF Len(productsToProcess) = 0
     THEN /\ pc' = "end"
          /\ UNCHANGED server
     ELSE /\ pc' = "listen"
          /\ server' = "binding"
  /\ UNCHANGED << numWorkers, store, storeWrites, dirsMade, productsData,
                  productsToProcess, productChunks, spawnI, workers,
                  completedWorkers, resolved, workerVars, msgs, handled,
                  serverVars,
                  envVars >>

\* Lines 197-200: the listen callback resolves startServer's promise.
Listening ==
  /\ pc = "listen"
  /\ server' = "listening"
  /\ pc' = "partition"
  /\ UNCHANGED << numWorkers, store, storeWrites, dirsMade, productsData,
                  productsToProcess, productChunks, spawnI, workers,
                  completedWorkers, resolved, workerVars, msgs, handled,
                  serverVars,
                  envVars >>

\* Line 197: port 3000 is unavailable; the server's 'error' event has no
\* listener and the process dies.
ListenError ==
  /\ pc = "listen"
  /\ server' = "none"
  /\ pc' = "crashed"
  /\ UNCHANGED << numWorkers, store, storeWrites, dirsMade, productsData,
                  productsToProcess, productChunks, spawnI, workers,
                  completedWorkers, resolved, workerVars, msgs, handled,
                  serverVars,
                  envVars >>

\* Lines 235-239: chunkArray, then the empty workers array and counter.
Partition ==
  /\ pc = "partition"
  /\ productChunks' = chunkArray(productsData, productsToProcess, numWorkers)
  /\ workers' = << >>
  /\ completedWorkers' = 0
  /\ spawnI' = 0
  /\ pc' = "spawn"
  /\ UNCHANGED << numWorkers, store, storeWrites, dirsMade, productsData,
                  productsToProcess, server, resolved, workerVars, msgs,
                  handled, serverVars,
                  envVars >>

\* Lines 243-269: one iteration of the spawn loop; the worker for chunk i is
\* worker i + 1 here.
SpawnWorker ==
  /\ pc = "spawn"
  /\ spawnI < numWorkers
  /\ IF Len(productChunks[spawnI + 1]) = 0
     THEN UNCHANGED << workers, wpc >>
     ELSE /\ workers' = Append(workers, spawnI + 1)
          /\ wpc' = [wpc EXCEPT ![spawnI + 1] = "launch"]
  /\ spawnI' = spawnI + 1
  /\ UNCHANGED << numWorkers, store, storeWrites, dirsMade, productsData,
                  productsToProcess, pc, server, productChunks,
                  completedWorkers, resolved, wi, wbrowser, wpage, werr, wexit,
                  shots, msgs, handled, serverVars,
                  envVars >>

\* Lines 271-278: the loop is over; resolve at once if no worker was created,
\* then suspend on workerPromise.
SpawnEnd ==
  /\ pc = "spawn"
  /\ spawnI >= numWorkers
  /\ resolved' = (Len(workers) = 0)
  /\ pc' = "await"
  /\ UNCHANGED << numWorkers, store, storeWrites, dirsMade, productsData,
                  productsToProcess, server, productChunks, spawnI, workers,
                  completedWorkers, workerVars, msgs, handled, serverVars,
                  envVars >>

\* The 'message' listener without the test message === 'DONE'.
OnMessage_CountAll(w) ==
  /\ \/ pc = "await" /\ ~resolved
     \/ pc = "end"
  /\ msgs[w] # << >>
  /\ handled' = [handled EXCEPT ![w] = Append(@, Head(msgs[w]))]
  /\ completedWorkers' = completedWorkers + 1
  /\ resolved' = (resolved \/ completedWorkers + 1 = Len(workers))
  /\ msgs' = [msgs EXCEPT ![w] = Tail(@)]
  /\ UNCHANGED << numWorkers, store, storeWrites, dirsMade, productsData,
                  productsToProcess, pc, server, productChunks, spawnI, workers,
                  workerVars, serverVars,
                  envVars >>

\* The listener resolving workerPromise when the count reaches NUM_WORKERS.
OnMessage_CountToNumWorkers(w) ==
  /\ \/ pc = "await" /\ ~resolved
     \/ pc = "end"
  /\ msgs[w] # << >>
  /\ LET message == Head(msgs[w])
     IN /\ handled' = [handled EXCEPT ![w] = Append(@, message)]
        /\ IF message = "DONE"
           THEN /\ completedWorkers' = completedWorkers + 1
                /\ resolved' = (resolved \/ completedWorkers + 1 = numWorkers)
           ELSE UNCHANGED << completedWorkers, resolved >>
  /\ msgs' = [msgs EXCEPT ![w] = Tail(@)]
  /\ UNCHANGED << numWorkers, store, storeWrites, dirsMade, productsData,
                  productsToProcess, pc, server, productChunks, spawnI, workers,
                  workerVars, serverVars,
                  envVars >>

\* Lines 254-262: the 'message' listener of worker w runs for the oldest
\* message of w while the main thread is idle.
OnMessage(w) ==
  /\ \/ pc = "await" /\ ~resolved
     \/ pc = "end"
  /\ msgs[w] # << >>
  /\ LET message == Head(msgs[w])
     IN /\ handled' = [handled EXCEPT ![w] = Append(@, message)]
        /\ IF message = "DONE"
           THEN /\ completedWorkers' = completedWorkers + 1
                /\ resolved' = (resolved \/ completedWorkers + 1 = Len(workers))
           ELSE UNCHANGED << completedWorkers, resolved >>
  /\ msgs' = [msgs EXCEPT ![w] = Tail(@)]
  /\ UNCHANGED << numWorkers, store, storeWrites, dirsMade, productsData,
                  productsToProcess, pc, server, productChunks, spawnI, workers,
                  workerVars, serverVars,
                  envVars >>

\* main going on to server.close without awaiting workerPromise.
ServerClose_NoAwait ==
  /\ pc = "await"
  /\ server' = "closing"
  /\ pc' = "persist"
  /\ UNCHANGED << numWorkers, store, storeWrites, dirsMade, productsData,
                  productsToProcess, productChunks, spawnI, workers,
                  completedWorkers, resolved, workerVars, msgs, handled,
                  serverVars,
                  envVars >>

\* main resuming without the call of server.close.
ServerClose_NoClose ==
  /\ pc = "await"
  /\ resolved
  /\ pc' = "persist"
  /\ UNCHANGED << numWorkers, store, storeWrites, dirsMade, productsData,
                  productsToProcess, server, productChunks, spawnI, workers,
                  completedWorkers, resolved, workerVars, msgs, handled,
                  serverVars,
                  envVars >>

\* Lines 278-285: workerPromise is resolved, main resumes and calls
\* server.close, which stops listening and returns at once.
ServerClose ==
  /\ pc = "await"
  /\ resolved
  /\ server' = "closing"
  /\ pc' = "persist"
  /\ UNCHANGED << numWorkers, store, storeWrites, dirsMade, productsData,
                  productsToProcess, productChunks, spawnI, workers,
                  completedWorkers, resolved, workerVars, msgs, handled,
                  serverVars,
                  envVars >>

\* The persist step writing only the records processed in this run.
Persist_OnlyProcessed ==
  /\ pc = "persist"
  /\ store' = File(UpdatedProducts([k \in 1..Len(productsToProcess) |->
                                      productsToProcess[k].product]))
  /\ storeWrites' = storeWrites + 1
  /\ pc' = "end"
  /\ UNCHANGED << numWorkers, dirsMade, productsData, productsToProcess, server,
                  productChunks, spawnI, workers, completedWorkers, resolved,
                  workerVars, msgs, handled, serverVars,
                  envVars >>

\* Lines 287-297: in the same turn, rewrite products.json; main() returns.
Persist ==
  /\ pc = "persist"
  /\ store' = File(UpdatedProducts(productsData))
  /\ storeWrites' = storeWrites + 1
  /\ pc' = "end"
  /\ UNCHANGED << numWorkers, dirsMade, productsData, productsToProcess, server,
                  productChunks, spawnI, workers, completedWorkers, resolved,
                  workerVars, msgs, handled, serverVars,
                  envVars >>

\* Lines 281-283: the close callback runs in a later turn of the event loop.
ServerClosed ==
  /\ pc = "end"
  /\ server = "closing"
  /\ server' = "closed"
  /\ UNCHANGED << numWorkers, store, storeWrites, dirsMade, productsData,
                  productsToProcess, pc, productChunks, spawnI, workers,
                  completedWorkers, resolved, workerVars, msgs, handled,
                  serverVars,
                  envVars >>

\* ---------------------------------------------------------- worker threads
Chunk(w) == productChunks[w]

\* Line 331: the status message for item number k of worker w's chunk.
ProcessingMessage(item) ==
  "Processing product " \o ToString(item.index + 1) \o ": Product Code "
    \o BaseName(item.product)

\* Lines 346 and 356.
GeneratedMessage(item) ==
  "Generated image: generated_cards/" \o OutputFileName(item.product)

\* error.message of the exceptions of the launch, of a page operation and of
\* browser.close.
ErrorTexts == {"launch", "page", "close"}

\* Line 367, for an exception whose message is text.
ErrorMessage(text) == "Error: " \o text

Post(w, m) == msgs' = [msgs EXCEPT ![w] = @ \o m]

\* A catch block that also signals completion.
Catch_AlsoDone(w, text) ==
  /\ msgs' = [msgs EXCEPT ![w] = @ \o << "Error: " \o text, "DONE" >>]
  /\ wpc' = [wpc EXCEPT ![w] = "exited"]
  /\ wexit' = [wexit EXCEPT ![w] = 1]

\* A catch block without process.exit(1): the thread ends with status 0.
Catch_NoExit(w, text) ==
  /\ msgs' = [msgs EXCEPT ![w] = @ \o << "Error: " \o text >>]
  /\ wpc' = [wpc EXCEPT ![w] = "exited"]
  /\ wexit' = [wexit EXCEPT ![w] = 0]

\* Lines 365-368: the catch block posts the error and ends the thread with
\* status 1.
Catch(w, text) ==
  /\ Post(w, << ErrorMessage(text) >>)
  /\ wpc' = [wpc EXCEPT ![w] = "exited"]
  /\ wexit' = [wexit EXCEPT ![w] = 1]

\* Lines 307-313: puppeteer.launch settles.
Launch(w) ==
  /\ wpc[w] = "launch"
  /\ \/ /\ wbrowser' = [wbrowser EXCEPT ![w] = "open"]
        /\ wpc' = [wpc EXCEPT ![w] = "newPage"]
        /\ UNCHANGED << wexit, msgs >>
     \/ /\ Catch(w, "launch")
        /\ UNCHANGED wbrowser
  /\ UNCHANGED << numWorkers, mainVars, wi, wpage, werr, shots, handled,
                  serverVars,
                  envVars >>

\* Lines 358-360: control enters the finally block, with or without a pending
\* exception, and browser.close is called.
Finally(w, threw) ==
  /\ wpc' = [wpc EXCEPT ![w] = "close"]
  /\ werr' = [werr EXCEPT ![w] = threw]
  /\ wbrowser' = [wbrowser EXCEPT ![w] = "closing"]

\* browser.newPage called before the try block: its exception goes straight
\* to the catch block.
NewPage_OutsideTry(w) ==
  /\ wpc[w] = "newPage"
  /\ \/ /\ wpc' = [wpc EXCEPT ![w] = "setViewport"]
        /\ UNCHANGED << werr, wbrowser, wexit, msgs >>
     \/ /\ Catch(w, "page")
        /\ UNCHANGED << werr, wbrowser >>
  /\ UNCHANGED << numWorkers, mainVars, wi, wpage, shots, handled, serverVars,
                  envVars >>

\* Line 317: browser.newPage settles.
NewPage(w) ==
  /\ wpc[w] = "newPage"
  /\ \/ /\ wpc' = [wpc EXCEPT ![w] = "setViewport"]
        /\ UNCHANGED << werr, wbrowser >>
     \/ Finally(w, TRUE)
  /\ UNCHANGED << numWorkers, mainVars, wi, wpage, wexit, shots,
                  msgs, handled, serverVars,
                  envVars >>

\* Lines 320-336: page.setViewport settles; the loop starts with item 0
\* (a chunk given to a worker is never empty), posts its status message and
\* starts the navigation.
SetViewport(w) ==
  /\ wpc[w] = "setViewport"
  /\ \/ /\ wi' = [wi EXCEPT ![w] = 0]
        /\ Post(w, << ProcessingMessage(Chunk(w)[1]) >>)
        /\ wpc' = [wpc EXCEPT ![w] = "goto"]
        /\ UNCHANGED << werr, wbrowser >>
     \/ /\ Finally(w, TRUE)
        /\ UNCHANGED << wi, msgs >>
  /\ UNCHANGED << numWorkers, mainVars, wpage, wexit, shots, handled,
                  serverVars,
                  envVars >>

\* Lines 334-354: page.goto settles, with the page the server answers once
\* the main thread is idle; then the file name is computed and the screenshot
\* starts.
Goto(w) ==
  /\ wpc[w] = "goto"
  /\ \/ /\ pc = "await"
        /\ server = "listening"
        /\ wpage' = [wpage EXCEPT ![w] =
                       ProductRoute(productsData, IntToChars(Chunk(w)[wi[w] + 1].index))]
        /\ wpc' = [wpc EXCEPT ![w] = "screenshot"]
        /\ UNCHANGED << werr, wbrowser >>
     \/ /\ Finally(w, TRUE)
        /\ UNCHANGED wpage
  /\ UNCHANGED << numWorkers, mainVars, wi, wexit, shots, msgs,
                  handled, serverVars,
                  envVars >>

\* The loop body with the completion signal posted after every capture.
Screenshot_DoneInLoop(w) ==
  /\ wpc[w] = "screenshot"
  /\ LET item == Chunk(w)[wi[w] + 1]
     IN \/ /\ shots' = [shots EXCEPT ![w] =
                          Append(@, [file |-> OutputFileName(item.product),
                                     page |-> wpage[w],
                                     src |-> item.src])]
           /\ IF wi[w] + 1 < Len(Chunk(w))
              THEN /\ wi' = [wi EXCEPT ![w] = @ + 1]
                   /\ Post(w, << GeneratedMessage(item), "DONE",
                                 ProcessingMessage(Chunk(w)[wi[w] + 2]) >>)
                   /\ wpc' = [wpc EXCEPT ![w] = "goto"]
                   /\ UNCHANGED << werr, wbrowser >>
              ELSE /\ wi' = [wi EXCEPT ![w] = @ + 1]
                   /\ Post(w, << GeneratedMessage(item) >>)
                   /\ Finally(w, FALSE)
        \/ /\ Finally(w, TRUE)
           /\ UNCHANGED << wi, shots, msgs >>
  /\ UNCHANGED << numWorkers, mainVars, wpage, wexit, handled,
                  serverVars,
                  envVars >>

\* Lines 349-357 and 327-336: page.screenshot settles; the file is written,
\* the message posted, and the loop goes on to the next item or leaves the
\* try block for browser.close.
Screenshot(w) ==
  /\ wpc[w] = "screenshot"
  /\ LET item == Chunk(w)[wi[w] + 1]
     IN \/ /\ shots' = [shots EXCEPT ![w] =
                          Append(@, [file |-> OutputFileName(item.product),
                                     page |-> wpage[w],
                                     src |-> item.src])]
           /\ IF wi[w] + 1 < Len(Chunk(w))
              THEN /\ wi' = [wi EXCEPT ![w] = @ + 1]
                   /\ Post(w, << GeneratedMessage(item),
                                 ProcessingMessage(Chunk(w)[wi[w] + 2]) >>)
                   /\ wpc' = [wpc EXCEPT ![w] = "goto"]
                   /\ UNCHANGED << werr, wbrowser >>
              ELSE /\ wi' = [wi EXCEPT ![w] = @ + 1]
                   /\ Post(w, << GeneratedMessage(item) >>)
                   /\ Finally(w, FALSE)
        \/ /\ Finally(w, TRUE)
           /\ UNCHANGED << wi, shots, msgs >>
  /\ UNCHANGED << numWorkers, mainVars, wpage, wexit, handled,
                  serverVars,
                  envVars >>

\* Lines 358-368: browser.close in the finally block settles; then either
\* 'DONE' is posted and the thread ends, or the pending exception (or the one
\* close itself raised) reaches the catch block.
CloseBrowser(w) ==
  /\ wpc[w] = "close"
  /\ \/ /\ wbrowser' = [wbrowser EXCEPT ![w] = "closed"]
        /\ IF werr[w]
           THEN Catch(w, "page")
           ELSE /\ Post(w, << "DONE" >>)
                /\ wpc' = [wpc EXCEPT ![w] = "exited"]
                /\ wexit' = [wexit EXCEPT ![w] = 0]
     \/ /\ Catch(w, "close")
        /\ wbrowser' = [wbrowser EXCEPT ![w] = "closeFailed"]
  /\ UNCHANGED << numWorkers, mainVars, wi, wpage, werr, shots, handled,
                  serverVars,
                  envVars >>

\* ------------------------------------------------------------ HTTP clients
\* Lines 165-190: any client of the listening server requests /product/param.
ClientRequest(param) ==
  /\ server = "listening"
  /\ pc = "await"
  /\ req' = param
  /\ resp' = ProductRoute(productsData, param)
  /\ UNCHANGED << numWorkers, mainVars, workerVars, msgs, handled, envVars >>

\* --------------------------------------------------------------- formatter
\* Texts made of the digits 0-9 and the decimal separator.
Numerals ==
  UNION { [1..k -> { DecDigits[d] : d \in 1..10 } \cup {"."}] : k \in 1..MaxNumeralLen }

\* Lines 140-143: a call convertToArabicDigits(num) for the text of num.
ConvertCall(num) ==
  /\ fmtIn' = num
  /\ fmtOut' = convertToArabicDigits(num)
  /\ UNCHANGED << numWorkers, mainVars, workerVars, msgs, handled, serverVars,
                  run >>

\* ------------------------------------------------------------- second run
\* The process has ended: main has returned, no server is listening or
\* closing, every worker thread has ended and every message was handled.
ProcessEnded ==
  /\ pc = "end"
  /\ server \in {"none", "closed"}
  /\ \A w \in WorkerIds : wpc[w] \in {"none", "exited"} /\ msgs[w] = << >>

\* The program is started again on the products.json and the directories the
\* ended run has left: lines 11-26 run afresh, nothing else is kept.
NewRun ==
  /\ ProcessEnded
  /\ run < MaxRuns
  /\ run' = run + 1
  /\ productsData' = << >>
  /\ productsToProcess' = << >>
  /\ pc' = "load"
  /\ server' = "none"
  /\ productChunks' = << >>
  /\ spawnI' = 0
  /\ workers' = << >>
  /\ completedWorkers' = 0
  /\ resolved' = FALSE
  /\ wpc' = [w \in WorkerIds |-> "none"]
  /\ wi' = [w \in WorkerIds |-> 0]
  /\ wbrowser' = [w \in WorkerIds |-> "none"]
  /\ wpage' = [w \in WorkerIds |-> Blank]
  /\ werr' = [w \in WorkerIds |-> FALSE]
  /\ wexit' = [w \in WorkerIds |-> -1]
  /\ handled' = [w \in WorkerIds |-> << >>]
  /\ shots' = [w \in WorkerIds |-> << >>]
  /\ UNCHANGED << numWorkers, store, storeWrites, dirsMade, msgs, serverVars,
                  fmtIn, fmtOut >>

\* ---------------------------------------------------------- specifications
MainStep ==
  \/ Load
  \/ Setup
  \/ MainEntry
  \/ Listening
  \/ ListenError
  \/ Partition
  \/ SpawnWorker
  \/ SpawnEnd
  \/ ServerClose
  \/ Persist
  \/ ServerClosed

Next ==
  \/ MainStep
  \/ \E w \in WorkerIds : OnMessage(w)
  \/ \E w \in WorkerIds : Launch(w)
  \/ \E w \in WorkerIds : NewPage(w)
  \/ \E w \in WorkerIds : SetViewport(w)
  \/ \E w \in WorkerIds : Goto(w)
  \/ \E w \in WorkerIds : Screenshot(w)
  \/ \E w \in WorkerIds : CloseBrowser(w)

Spec == Init /\ [][Next]_vars

\* Runs in which the server binds and no operation of a worker throws.
MainStepOk ==
  \/ Load
  \/ Setup
  \/ MainEntry
  \/ Listening
  \/ Partition
  \/ SpawnWorker
  \/ SpawnEnd
  \/ ServerClose
  \/ Persist
  \/ ServerClosed

Succeeds(w) == ~werr'[w] /\ wexit'[w] # 1

WorkerStepOk(w) ==
  \/ Launch(w) /\ Succeeds(w)
  \/ NewPage(w) /\ Succeeds(w)
  \/ SetViewport(w) /\ Succeeds(w)
  \/ Goto(w) /\ Succeeds(w)
  \/ Screenshot(w) /\ Succeeds(w)
  \/ CloseBrowser(w) /\ Succeeds(w)

NextOk ==
  \/ MainStepOk
  \/ \E w \in WorkerIds : OnMessage(w)
  \/ \E w \in WorkerIds : WorkerStepOk(w)

\* Some thread with a step to take takes one: the main thread runs whenever
\* it has a turn to run, worker threads are scheduled, and posted messages are
\* delivered.
Fairness == WF_vars(NextOk)

\* Stores whose records are up to date or pending.
FairRecords ==
  { Rec("a", Undefined, Num(205), Num(205)),
    Rec("a", Undefined, Num(1990), Num(205)) }

InitFair ==
  /\ Init
  /\ store \in { File(data) : data \in SeqsUpTo(FairRecords, MaxProducts) }
                 \cup {Unreadable}

FairSpec == InitFair /\ [][NextOk]_vars /\ Fairness

\* Successive runs of the program over one products.json.
NextRerun ==
  \/ Next
  \/ NewRun

SpecRerun == Init /\ [][NextRerun]_vars

\* The page server alone: the run up to the listening server, and clients.
NextServer ==
  \/ Load
  \/ Setup
  \/ MainEntry
  \/ Listening
  \/ ListenError
  \/ Partition
  \/ SpawnWorker
  \/ SpawnEnd
  \/ \E param \in Params : ClientRequest(param)

SpecServer == Init /\ [][NextServer]_vars

\* The formatter alone, called on every numeral text, before a run over an
\* empty store.
InitDigits ==
  /\ Init
  /\ numWorkers = 1
  /\ store = File(<< >>)

NextDigits == \E num \in Numerals : ConvertCall(num)

SpecDigits == InitDigits /\ [][NextDigits]_vars

\* ------------------------------------------------------------------ claims
\* The main thread has computed the pending selection.
Selected == pc \notin {"load", "setup", "exit1"}

\* A record is due when previous_price is null, absent, or not current_price.
Due(r) ==
  \/ r.previous_price.t = "null"
  \/ r.previous_price.t = "undefined"
  \/ r.previous_price # r.current_price

\* C1: once a collection is loaded, the pending selection holds exactly the
\* records whose previous_price is null, absent or different from
\* current_price, each once, in the order of the collection.
C1_SelectPending ==
  Selected =>
    /\ \A j \in 1..Len(productsToProcess) :
         /\ productsToProcess[j].src \in 1..Len(productsData)
         /\ productsToProcess[j].product = productsData[productsToProcess[j].src]
         /\ Due(productsData[productsToProcess[j].src])
    /\ \A j, k \in 1..Len(productsToProcess) :
         j < k => productsToProcess[j].src < productsToProcess[k].src
    /\ \A n \in 1..Len(productsData) :
         Due(productsData[n]) =>
           \E j \in 1..Len(productsToProcess) : productsToProcess[j].src = n

\* A collection with a null, an absent and a different previous_price, and a
\* record that is left out.
C1_Witness ==
  /\ Selected
  /\ Len(productsData) = 3
  /\ Len(productsToProcess) = 2
  /\ productsData[1].previous_price = productsData[1].current_price
  /\ productsData[2].previous_price = Null
  /\ productsData[3].previous_price = Undefined

\* C2: whenever a run has reached the persist step, the store holds, for
\* every record of the full collection, previous_price equal to that record's
\* current_price.
C2_PersistAll ==
  storeWrites > 0 =>
    /\ store.readable
    /\ Len(store.data) = Len(productsData)
    /\ \A n \in 1..Len(productsData) :
         /\ store.data[n].previous_price = productsData[n].current_price
         /\ store.data[n].previous_price = store.data[n].current_price

\* The store was rewritten for a collection with a record that was not
\* selected and records that were, one of them with a stale previous_price.
C2_Witness ==
  /\ storeWrites > 0
  /\ Len(productsToProcess) < Len(productsData)
  /\ \E n \in 1..Len(productsData) :
       /\ productsData[n].previous_price.t = "number"
       /\ productsData[n].previous_price # productsData[n].current_price

\* C3: if no record is pending after load, the run ends without starting the
\* server, without spawning a worker, and without writing the store.
C3_NothingPending ==
  (Selected /\ pc # "main" /\ Len(FilterProducts(productsData)) = 0) =>
    /\ pc = "end"
    /\ server = "none"
    /\ workers = << >>
    /\ \A w \in WorkerIds : wpc[w] = "none"
    /\ storeWrites = 0
    /\ store = File(productsData)

\* A run over a non-empty collection with nothing pending has ended.
C3_Witness ==
  /\ pc = "end"
  /\ Len(productsData) > 0
  /\ Len(productsToProcess) = 0

\* The workers the spawn loop has created.
Spawned == { w \in WorkerIds : wpc[w] # "none" }

SentDone(w) == \E k \in 1..Len(handled[w]) : handled[w][k] = "DONE"

\* C4: in a run with pending records the server is closed and the store
\* rewritten only after a 'DONE' of every spawned worker has been received;
\* the await never resolves while a spawned worker has not sent 'DONE', and
\* the completed-worker count never exceeds the number of spawned workers.
C4_AwaitAll ==
  /\ completedWorkers <= Cardinality(Spawned)
  /\ (resolved \/ server \in {"closing", "closed"} \/ storeWrites > 0) =>
       /\ pc \in {"await", "persist", "end"}
       /\ Spawned = { w \in DOMAIN productChunks : Len(productChunks[w]) > 0 }
       /\ Spawned # {}
       /\ \A w \in Spawned : SentDone(w)

\* Two workers were spawned and the await has resolved.
C4_Witness ==
  /\ resolved
  /\ Cardinality(Spawned) = 2
  /\ completedWorkers = 2

\* A worker has ended on an exception.
Failed(w) == wpc[w] = "exited" /\ wexit[w] = 1

\* The screenshots written so far, each named by its worker and its rank.
Captures == { << w, k >> \in WorkerIds \X (1..MaxProducts + 1) : k <= Len(shots[w]) }

\* The positions of the collection whose record has had its image written.
CapturedSrc == { shots[c[1]][c[2]].src : c \in Captures }

PendingSrc == { productsToProcess[j].src : j \in 1..Len(productsToProcess) }

\* Nothing in the run can take a step any more.
AtRest ==
  /\ pc \in {"await", "end", "exit1", "crashed"}
  /\ ~(pc = "await" /\ resolved)
  /\ ~(pc = "end" /\ server = "closing")
  /\ \A w \in WorkerIds : wpc[w] \in {"none", "exited"} /\ msgs[w] = << >>

\* C5 as stated: a run in which a worker failed partway still comes to its
\* persist step, so that once it is at rest the store is rewritten with
\* previous_price = current_price for every record.
C5_AsStated ==
  (AtRest /\ \E w \in WorkerIds : Failed(w)) =>
    /\ storeWrites > 0
    /\ store = File(UpdatedProducts(productsData))

\* C5: the store is rewritten with previous_price = current_price for every
\* record, selected or not, but only in a run where no worker failed: when
\* the persist step happens, every spawned worker has ended with 'DONE' and
\* the image of every pending record has been written.
C5_PersistOnlyAfterSuccess ==
  storeWrites > 0 =>
    /\ \A n \in 1..Len(productsData) :
         store.data[n].previous_price = productsData[n].current_price
    /\ \A w \in Spawned : wexit[w] = 0 /\ ~Failed(w)
    /\ CapturedSrc = PendingSrc

\* The store was rewritten after two workers captured three pending records.
C5_Witness ==
  /\ storeWrites > 0
  /\ Cardinality(Spawned) = 2
  /\ Cardinality(PendingSrc) = 3
  /\ Len(productsData) = 3

\* C6: once a spawned worker has ended on an error without sending 'DONE',
\* the orchestrator never leaves the await-all step: the promise stays
\* unresolved, the server stays open and the store is not rewritten.
C6_FailedWorkerStalls ==
  (\E w \in WorkerIds : Failed(w)) =>
    /\ pc \in {"spawn", "await"}
    /\ ~resolved
    /\ server = "listening"
    /\ storeWrites = 0
    /\ store = File(productsData)
    /\ completedWorkers < Len(workers) \/ pc = "spawn"

\* One worker failed, the other sent 'DONE', every message has been handled
\* and the orchestrator is still waiting.
C6_Witness ==
  /\ AtRest
  /\ pc = "await"
  /\ \E w \in WorkerIds : Failed(w)
  /\ \E w \in WorkerIds : SentDone(w)

\* The steps the main thread may take from one position to the next.
MainOrder ==
  { << "load", "setup" >>, << "load", "exit1" >>, << "setup", "main" >>,
    << "main", "end" >>, << "main", "listen" >>, << "listen", "partition" >>,
    << "listen", "crashed" >>, << "partition", "spawn" >>,
    << "spawn", "await" >>, << "await", "persist" >>, << "persist", "end" >> }

\* C7 as stated: the store is rewritten only after the close callback of the
\* server has fired.
C7_AsStated == storeWrites > 0 => server = "closed"

\* C7: the orchestrator's steps occur in the order SERVE-START, PARTITION,
\* SPAWN-WORKERS, AWAIT-ALL, SERVE-STOP, PERSIST, END; the store is rewritten
\* after server.close has been called, in the same turn, before the close
\* callback fires: the callback fires only after the store is rewritten.
C7_OrderCloseThenPersist ==
  [][ /\ pc' # pc => << pc, pc' >> \in MainOrder
      /\ (pc = "listen" /\ pc' = "partition") => server' = "listening"
      /\ (pc = "await" /\ pc' = "persist") =>
           server = "listening" /\ server' = "closing"
      /\ storeWrites' # storeWrites =>
           /\ pc = "persist" /\ pc' = "end"
           /\ server = "closing" /\ server' = "closing"
      /\ (server # "closed" /\ server' = "closed") =>
           storeWrites = 1 /\ pc = "end" ]_vars

\* The store has been rewritten and the close callback has not fired yet.
C7_Witness ==
  /\ storeWrites = 1
  /\ pc = "end"
  /\ server = "closing"

\* The work items of all chunks, each named by its chunk and its rank.
Items == UNION { { << c, k >> : k \in 1..Len(productChunks[c]) } : c \in DOMAIN productChunks }

ItemAt(i) == productChunks[i[1]][i[2]]

ShotAt(c) == shots[c[1]][c[2]]

\* C8: every pending record becomes exactly one work item, in exactly one
\* chunk; no work item is captured more than once; and when every spawned
\* worker has ended without failure every pending record has been captured
\* exactly once.
C8_ItemsOncePerRun ==
  (pc \in {"spawn", "await", "persist", "end"} /\ productsToProcess # << >>) =>
    /\ \A j \in 1..Len(productsToProcess) :
         /\ Cardinality({ i \in Items : ItemAt(i).src = productsToProcess[j].src }) = 1
         /\ \A i \in Items :
              ItemAt(i).src = productsToProcess[j].src =>
                ItemAt(i).product = productsToProcess[j].product
    /\ Cardinality(Items) = Len(productsToProcess)
    /\ \A c \in Captures : c \in Items /\ ShotAt(c).src = ItemAt(c).src
    /\ \A c, d \in Captures : c # d => ShotAt(c).src # ShotAt(d).src
    /\ (pc # "spawn" /\ \A w \in Spawned : wpc[w] = "exited" /\ wexit[w] = 0) =>
         /\ CapturedSrc = PendingSrc
         /\ Cardinality(Captures) = Len(productsToProcess)

\* Three pending records were captured by two workers, none of which failed.
C8_Witness ==
  /\ pc = "end"
  /\ Len(productsToProcess) = 3
  /\ Cardinality(Spawned) = 2
  /\ Cardinality(Captures) = 3

\* Two records have the same identity key (productCode, variation_suffix); an
\* absent and an empty suffix are taken as the same, as chunkArray does.
SameKey(r, q) ==
  /\ r.productCode = q.productCode
  /\ \/ r.variation_suffix = q.variation_suffix
     \/ ~Truthy(r.variation_suffix) /\ ~Truthy(q.variation_suffix)

\* C9: no two captures of a run write to the same output file name: records
\* with distinct identity keys always get distinct output file names.
C9_DistinctFileNames ==
  \A c, d \in Captures :
    (c # d /\ ~SameKey(productsData[ShotAt(c).src], productsData[ShotAt(d).src]))
      => ShotAt(c).file # ShotAt(d).file

\* The text is a decimal numeral.
AllDigits(p) == p # << >> /\ \A k \in 1..Len(p) : IsDecDigit(p[k])

\* The number a decimal numeral stands for.
RECURSIVE NumeralValue(_)
NumeralValue(p) ==
  IF p = << >> THEN 0
  ELSE 10 * NumeralValue(SubSeq(p, 1, Len(p) - 1)) + DigitValue(p[Len(p)])

\* No digit at the start of the text, nor after a leading minus sign.
NonNumeric(p) ==
  /\ ~IsDecDigit(p[1])
  /\ ~(p[1] = "-" /\ Len(p) >= 2 /\ IsDecDigit(p[2]))

\* A minus sign and the decimal numeral of a positive number.
NegativeNumeral(p) ==
  /\ p[1] = "-"
  /\ AllDigits(Tail(p))
  /\ NumeralValue(Tail(p)) > 0

\* The request asks for an index for which the collection has no record.
NoSuchIndex(p) ==
  \/ NonNumeric(p)
  \/ NegativeNumeral(p)
  \/ AllDigits(p) /\ NumeralValue(p) >= Len(productsData)

InRange(p) == AllDigits(p) /\ NumeralValue(p) < Len(productsData)

C11_UnreadableStoreExits ==
  ~store.readable =>
    /\ pc \in {"load", "exit1"}
    /\ ~dirsMade
    /\ server = "none"
    /\ Spawned = {}
    /\ workers = << >>
    /\ storeWrites = 0
    /\ productsData = << >>

\* The process has ended with status 1 on an unreadable store.
C11_Witness ==
  /\ pc = "exit1"
  /\ ~store.readable

\* The inverse glyph table: the Western digit of each Arabic-indic glyph.
InverseGlyphs ==
  ("ar0" :> "0") @@ ("ar1" :> "1") @@ ("ar2" :> "2") @@ ("ar3" :> "3") @@
  ("ar4" :> "4") @@ ("ar5" :> "5") @@ ("ar6" :> "6") @@ ("ar7" :> "7") @@
  ("ar8" :> "8") @@ ("ar9" :> "9")

MapBack(t) ==
  [k \in 1..Len(t) |-> IF t[k] \in DOMAIN InverseGlyphs THEN InverseGlyphs[t[k]] ELSE t[k]]

\* C12: for every text of digits 0-9 and a decimal separator, the output of
\* the Arabic digit formatter mapped back through the inverse glyph table is
\* the text itself; other characters pass through unchanged and the length
\* is preserved.
C12_DigitsRoundTrip ==
  fmtIn # << >> =>
    /\ Len(fmtOut) = Len(fmtIn)
    /\ MapBack(fmtOut) = fmtIn
    /\ \A k \in 1..Len(fmtIn) : ~IsDecDigit(fmtIn[k]) => fmtOut[k] = fmtIn[k]

\* A numeral with a digit and the separator has been converted.
C12_Witness ==
  /\ fmtIn = << "9", "." >>
  /\ fmtOut = << "ar9", "." >>

\* C13: the index attached to the work item of a pending record is the
\* position of that same record in the unfiltered collection, so that the
\* page the worker requests renders that record's own price and image; for
\* every collection, also one where records share a productCode or differ
\* only in an absent versus an empty variation_suffix.
C13_IndexIsOwnPosition ==
  /\ \A i \in Items : ItemAt(i).index = ItemAt(i).src - 1
  /\ \A c \in Captures :
       /\ ShotAt(c).page.status = 200
       /\ ShotAt(c).page.body = RenderProduct(productsData[ShotAt(c).src])

\* The pending list has been partitioned over at most as many workers as it
\* has items.
PartitionedKLeqN ==
  /\ pc \in {"spawn", "await", "persist", "end"}
  /\ productsToProcess # << >>
  /\ numWorkers <= Len(productsToProcess)

\* The groups taken in turn, one item from each: the round-robin merge.
RoundRobinMerge(chunks, n) ==
  [j \in 1..n |-> chunks[((j - 1) % Len(chunks)) + 1][((j - 1) \div Len(chunks)) + 1]]

\* C14: partitioning N pending items over K <= N workers gives K groups whose
\* sizes differ by at most 1; item i is in group i mod K; the order of the
\* list is kept inside each group; merging the groups round-robin gives the
\* pending list back.
C14_RoundRobinPartition ==
  PartitionedKLeqN =>
    LET K == numWorkers
        N == Len(productsToProcess)
    IN /\ Len(productChunks) = K
       /\ \A c, d \in 1..K : Len(productChunks[c]) - Len(productChunks[d]) <= 1
       /\ \A j \in 1..N :
            \E k \in 1..Len(productChunks[((j - 1) % K) + 1]) :
              productChunks[((j - 1) % K) + 1][k].src = productsToProcess[j].src
       /\ \A c \in 1..K : \A k, l \in 1..Len(productChunks[c]) :
            k < l => productChunks[c][k].src < productChunks[c][l].src
       /\ \A c \in 1..K : Len(productChunks[c]) >= 1
       /\ LET merged == RoundRobinMerge(productChunks, N)
          IN \A j \in 1..N :
               /\ merged[j].src = productsToProcess[j].src
               /\ merged[j].product = productsToProcess[j].product

\* Three pending items were partitioned over two workers.
C14_Witness ==
  /\ PartitionedKLeqN
  /\ numWorkers = 2
  /\ Len(productsToProcess) = 3
  /\ Len(productChunks[1]) = 2
  /\ Len(productChunks[2]) = 1

\* Every message worker w has posted, in order.
Posted(w) == handled[w] \o msgs[w]

HasPosted(w, m) == \E k \in 1..Len(Posted(w)) : Posted(w)[k] = m

IsErrorMessage(m) == \E text \in ErrorTexts : m = ErrorMessage(text)

ErrorPosted(w) == \E k \in 1..Len(Posted(w)) : IsErrorMessage(Posted(w)[k])

\* An exception has occurred in worker w.
Threw(w) == werr[w] \/ ErrorPosted(w)

\* C15: when an exception occurs in a worker during launch, navigation or
\* capture, the worker sends one error message to the coordinator, handles no
\* further item of its chunk, never sends 'DONE', and ends with status 1.
C15_FailureEndsWorker ==
  /\ [](\A w \in WorkerIds :
          /\ Threw(w) =>
               /\ ~HasPosted(w, "DONE")
               /\ wpc[w] \in {"close", "exited"}
               /\ wpc[w] = "exited" =>
                    /\ wexit[w] = 1
                    /\ IsErrorMessage(Posted(w)[Len(Posted(w))])
                    /\ Cardinality({ k \in 1..Len(Posted(w)) :
                                       IsErrorMessage(Posted(w)[k]) }) = 1
          /\ (wpc[w] = "exited" /\ ~HasPosted(w, "DONE")) => ErrorPosted(w))
  /\ [][\A w \in WorkerIds :
          Threw(w) =>
            /\ shots'[w] = shots[w]
            /\ wi'[w] = wi[w]
            /\ \/ handled'[w] \o msgs'[w] = Posted(w)
               \/ /\ ~ErrorPosted(w)
                  /\ wpc'[w] = "exited"
                  /\ \E text \in ErrorTexts :
                       handled'[w] \o msgs'[w] = Append(Posted(w), ErrorMessage(text))]_vars

\* A worker with two items failed after its first capture and has ended.
C15_Witness ==
  \E w \in Spawned :
    /\ Failed(w)
    /\ Len(productChunks[w]) = 2
    /\ Len(shots[w]) = 1
    /\ ErrorPosted(w)
    /\ msgs[w] = << >>

\* C16: in every worker execution in which a browser was launched,
\* browser.close is invoked before the execution ends, on the success path and
\* on every failure path, and before the worker sends 'DONE' or its error
\* message.
C16_BrowserClosed ==
  \A w \in WorkerIds :
    /\ wbrowser[w] = "none" => wpc[w] \in {"none", "launch", "exited"}
    /\ wpc[w] = "exited" => wbrowser[w] \in {"none", "closed", "closeFailed"}
    /\ (wpc[w] = "exited" /\ wbrowser[w] = "none") =>
         Posted(w) = << ErrorMessage("launch") >>
    /\ (HasPosted(w, "DONE") \/ ErrorPosted(w)) =>
         wbrowser[w] \notin {"open", "closing"}

\* One worker ended after a failure in its page work, another after 'DONE',
\* both with the browser closed.
C16_Witness ==
  \E w, x \in Spawned :
    /\ Failed(w) /\ wbrowser[w] = "closed"
    /\ HasPosted(x, "DONE") /\ wbrowser[x] = "closed"

\* C17: each worker handles the items of its chunk in partition order with a
\* progress notification for each item, sends 'DONE' at most once and only
\* after the capture of its last item; the coordinator counts no other
\* message as a completion.
C17_OrderProgressDone ==
  /\ \A w \in Spawned :
       /\ Len(shots[w]) <= Len(productChunks[w])
       /\ \A k \in 1..Len(shots[w]) :
            /\ shots[w][k].src = productChunks[w][k].src
            /\ Posted(w)[2 * k - 1] = ProcessingMessage(productChunks[w][k])
            /\ Posted(w)[2 * k] = GeneratedMessage(productChunks[w][k])
       /\ wpc[w] \in {"goto", "screenshot"} =>
            /\ Len(shots[w]) = wi[w]
            /\ Len(Posted(w)) = 2 * wi[w] + 1
            /\ Posted(w)[2 * wi[w] + 1] = ProcessingMessage(productChunks[w][wi[w] + 1])
       /\ Cardinality({ k \in 1..Len(Posted(w)) : Posted(w)[k] = "DONE" }) <= 1
       /\ HasPosted(w, "DONE") =>
            /\ Len(shots[w]) = Len(productChunks[w])
            /\ Len(Posted(w)) = 2 * Len(productChunks[w]) + 1
            /\ Posted(w)[Len(Posted(w))] = "DONE"
  /\ completedWorkers = Cardinality({ w \in WorkerIds : SentDone(w) })

\* A worker with two items has sent its five messages, all handled.
C17_Witness ==
  \E w \in Spawned :
    /\ Len(productChunks[w]) = 2
    /\ Len(handled[w]) = 5
    /\ SentDone(w)
    /\ completedWorkers >= 1

\* The run has left await-all, closed the server, rewritten the store and ended.
RunCompleted == pc = "end" /\ server = "closed" /\ storeWrites = 1

\* C18: in a run with at least one pending record in which the server binds
\* and no launch, navigation or capture fails, under fair scheduling the
\* orchestrator eventually leaves await-all, closes the server, rewrites the
\* store and ends, whatever the worker count and the number of pending records.
C18_RunCompletes == (pc = "listen") ~> RunCompleted

\* A failure-free run with fewer pending records than workers has completed.
C18_Witness ==
  /\ RunCompleted
  /\ productsToProcess # << >>
  /\ Len(productsToProcess) < numWorkers
  /\ Len(workers) < numWorkers

\* The store holds the records of data in the same order, with productCode,
\* variation_suffix and current_price as in data.
SameButPrevious(data) ==
  /\ store.readable
  /\ Len(store.data) = Len(data)
  /\ \A k \in 1..Len(data) :
       /\ store.data[k].productCode = data[k].productCode
       /\ store.data[k].variation_suffix = data[k].variation_suffix
       /\ store.data[k].current_price = data[k].current_price

\* C19: the store written by the persist step has the same records in the
\* same order with productCode, variation_suffix and current_price unchanged,
\* and a later run started on that store with no price edit selects zero
\* pending records and leaves the store unchanged.
C19_FrameAndIdempotence ==
  /\ [](/\ (run = 1 /\ storeWrites = 1) => SameButPrevious(productsData)
        /\ run > 1 =>
             /\ storeWrites <= 1
             /\ Selected => productsToProcess = << >>
             /\ pc = "end" => store = File(productsData))
  /\ [][run > 1 => store' = store]_vars

\* A second run over a store written by the first run, which had pending
\* records, has ended.
C19_Witness ==
  /\ run = 2
  /\ storeWrites = 1
  /\ pc = "end"
  /\ productsData # << >>
  /\ \E k \in 1..Len(productsData) : productsData[k].variation_suffix # Undefined

====
